---------------------------- MODULE Spec2Model ----------------------------
(***************************************************************************)
(* Campaign dispatch and reply correlation service (src/app.py).           *)
(*                                                                         *)
(* Every HTTP request is handled by a worker p \in Procs.  All state lives *)
(* in the record store (tables campaigns, campaign_recipients, replies);   *)
(* a handler is a sequence of store calls and transport calls, each of     *)
(* which is one atomic step, so that handlers of concurrent requests       *)
(* interleave between calls.  Spec lets requests overlap; SeqSpec starts a *)
(* request only when no other request is in flight.                        *)
(***************************************************************************)
EXTENDS Integers, Sequences, FiniteSets, TLC

\* ------------------------------------------------------------------ bounds
NumProcs      == 2   \* concurrent request workers
NumEmails     == 2   \* distinct e-mail addresses
NumTokens     == 2   \* values secrets.token_hex can return (width reduced)
NumMids       == 2   \* distinct Message-Id values
MaxCampaigns  == 1   \* campaign rows ever created
MaxCorrelated == 2   \* campaign rows ever created where campaigns share an address
CorrelatedReplies == 1  \* reply rows ever created where campaigns share an address
CorrelatedClock   == 1  \* dispatch timestamps where campaigns share an address
MaxRecipients == 2   \* recipient rows ever created
MaxReplies    == 2   \* reply rows ever created
MaxUpload     == 2   \* length of an uploaded e-mail list
MaxClock      == 2   \* dispatch timestamps handed out
MaxPieces     == 4   \* pieces a text given to clean_body is made of

\* --------------------------------------------------------------- constants
NULL == 0            \* SQL NULL / Python None for ids and timestamps
REPLIED == 1         \* the store's now() written to replied_at
ListLimit == 1000    \* the row limit of the reply listing

Procs     == 1..NumProcs
Emails    == 1..NumEmails
Tokens    == 1..NumTokens
Mids      == 1..NumMids
CampIds   == 1..MaxCorrelated

\* Header values of a request: absent, the configured secret, another value.
\* A request records the headers its handler reads.
HdrVals == {"absent", "good", "bad"}
\* Text fields after .strip(): blank or not.
Texts   == {"", "text"}
\* The subject and body-plain fields of an event, body-plain as the sequence
\* of its characters: no body, a subject and a text, a quotation only.
Contents ==
  {[subject |-> "", plain |-> <<>>],
   [subject |-> "text", plain |-> <<"h", "i">>],
   [subject |-> "", plain |-> <<"\n", ">", "h", "i">>]}

VARIABLES
  campaigns,    \* table campaigns
  recipients,   \* table campaign_recipients
  replies,      \* table replies
  nextCid,      \* next campaigns.id
  nextRid,      \* next campaign_recipients.id
  nextReplyId,  \* next replies.id
  clock,        \* wall clock read by datetime.now
  env,          \* os.environ: M_API_KEY, C_API_KEY
  mailed,       \* transport: recipient id -> number of accepted sends
  tlog,         \* transport: per worker, the calls of the current request
  pc,           \* per worker: position in its handler
  req,          \* per worker: the request being handled
  loc,          \* per worker: the handler's local variables
  last,         \* the request that completed in the last step, if any
  overlap,      \* whether the server handles requests concurrently
  cleaning      \* a call of clean_body on its own: argument and result

db   == <<campaigns, recipients, replies, nextCid, nextRid, nextReplyId>>
vars == <<campaigns, recipients, replies, nextCid, nextRid, nextReplyId,
          clock, env, mailed, tlog, pc, req, loc, last, overlap, cleaning>>

\* ------------------------------------------------------------ request data
\* A raw sender/from form field: missing or empty, text holding no address,
\* or text holding the address e (possibly with a display name, in any case).
RawFields == {<<"absent", 0>>, <<"noaddr", 0>>} \cup {<<"addr", e>> : e \in Emails}

NoReq ==
  [kind |-> "none", hdrM |-> "absent", hdrC |-> "absent", cid |-> 0,
   emails |-> <<>>, raw |-> <<"absent", 0>>, plain |-> <<>>, body |-> "",
   mid |-> 0,
   subject |-> "", name |-> "", confirm |-> FALSE]

NoLoc ==
  [campaign |-> <<>>, recipients |-> <<>>, i |-> 0, sent |-> 0, failed |-> 0,
   now |-> NULL, sender |-> 0, rec |-> <<>>, dup |-> FALSE]

NoResp ==
  [code |-> 0, uploaded |-> 0, sent |-> 0, failed |-> 0,
   header |-> <<>>, rows |-> <<>>]

NoLast == [req |-> NoReq, loc |-> NoLoc, resp |-> NoResp, tlog |-> <<>>]

Response(c) == [NoResp EXCEPT !.code = c]

\* Sequences over S of length lo..hi.
SeqsOf(S, lo, hi) == UNION {[1..n -> S] : n \in lo..hi}

\* ------------------------------------------------------------------- auth
require_m(r) == r.hdrM = env.M

require_c(r) == r.hdrC = env.C

require_viewer(r) == ~(r.hdrM # env.M /\ r.hdrC # env.C)

\* The X-C-Key values require_viewer reads: "and" reads the second header
\* only when the first does not match.
ViewerCKeys(hM) == IF hM # env.M THEN HdrVals ELSE {"absent"}

\* ---------------------------------------------------------------- helpers
\* request.form.get("sender") or request.form.get("from") or ""
FormSender(sender_f, from_f) ==
  IF sender_f[1] # "absent" THEN sender_f
  ELSE IF from_f[1] # "absent" THEN from_f
  ELSE <<"absent", 0>>

\* The values of the "from" field that the "or" chain reads: it is read only
\* when "sender" is missing or empty.
FromFields(sender_f) ==
  IF sender_f[1] # "absent" THEN {<<"absent", 0>>} ELSE RawFields

\* The lowercased first address in the text, "" (0) when there is none.
extract_email(s) == IF s[1] = "addr" THEN s[2] ELSE 0

\* The quoted-reply markers, in the order clean_body tries them.
Markers ==
  << <<"\n", "O", "n", " ">>, <<"\n", "F", "r", "o", "m", ":">>, <<"\n", ">">> >>

\* The characters str.strip removes.
Whitespace == {" ", "\n", "\t", "\r"}

\* marker occurs in text at index i.
OccursAt(text, marker, i) ==
  /\ i + Len(marker) - 1 <= Len(text)
  /\ SubSeq(text, i, i + Len(marker) - 1) = marker

\* text.split(marker, 1)[0] if marker in text, else text.
SplitFirst(text, marker) ==
  LET hits == {i \in 1..Len(text) : OccursAt(text, marker, i)} IN
  IF hits = {} THEN text
  ELSE SubSeq(text, 1, (CHOOSE i \in hits : \A j \in hits : i <= j) - 1)

\* text.strip()
strip(text) ==
  LET keep == {i \in 1..Len(text) : text[i] \notin Whitespace} IN
  IF keep = {} THEN <<>>
  ELSE SubSeq(text, CHOOSE i \in keep : \A j \in keep : i <= j,
                    CHOOSE i \in keep : \A j \in keep : j <= i)

\* The loop of clean_body from marker number k on.
RECURSIVE CutMarkers(_, _)
CutMarkers(text, k) ==
  IF k > Len(Markers) THEN text
  ELSE CutMarkers(SplitFirst(text, Markers[k]), k + 1)

clean_body(text) == strip(CutMarkers(text, 1))

\* secrets.token_hex(8): any token value.
gen_token == Tokens

\* ------------------------------------------------------------------ store
\* campaigns.select("*").eq("id", cid).single(): the row, or nothing.
SelectCampaign(cid) ==
  IF \E c \in campaigns : c.id = cid
  THEN <<CHOOSE c \in campaigns : c.id = cid>>
  ELSE <<>>

\* What a handler keeps of the campaign row it read: the columns it reads
\* later (the dispatch reads subject and body, the upload none).
Kept(campaign, content) ==
  <<[id |-> campaign[1].id,
     subject |-> IF content THEN campaign[1].subject ELSE "",
     body |-> IF content THEN campaign[1].body ELSE ""]>>

\* replies.select("id").eq("message_id", mid)
SelectReplies(mid) == {r \in replies : r.message_id = mid}

\* The lookup without the ordering: any recipient with the address.
SelectSomeRecipient(e) ==
  LET rows == {r \in recipients : r.email = e}
  IN IF rows = {} THEN {<<>>}
     ELSE {<<[campaign_id |-> r.campaign_id, token |-> r.token]>> : r \in rows}

\* campaign_recipients.select("campaign_id, token").eq("email", e)
\*   .order("created_at", desc=True).limit(1): the possible results (rows
\* created_at does not order come in either order).
SelectLatestRecipient(e) ==
  LET rows == {r \in recipients : r.email = e}
      top  == {r \in rows : \A x \in rows : x.created_at <= r.created_at}
  IN IF rows = {} THEN {<<>>}
     ELSE {<<[campaign_id |-> r.campaign_id, token |-> r.token]>> : r \in top}

\* campaign_recipients.select("*").eq("campaign_id", cid)
SelectRecipients(cid) == {r \in recipients : r.campaign_id = cid}

\* The orders in which a select without ORDER BY can return the rows of S.
Orders(S) ==
  {f \in [1..Cardinality(S) -> S] : \A i, j \in DOMAIN f : i # j => f[i] # f[j]}

\* The orders in which a select with ORDER BY can return the rows of S:
\* rank maps each row to its place in the ordering, equal for rows that the
\* ordering does not tell apart.
Sorted(S, rank) ==
  {f \in Orders(S) : \A i, j \in DOMAIN f : i < j => rank[f[i]] <= rank[f[j]]}

\* .limit(n)
Limit(rows, n) == IF Len(rows) <= n THEN rows ELSE SubSeq(rows, 1, n)

\* select(...).order("received_at", desc=True) on a reply table, of
\* campaign cid or, for cid 0, of every campaign.
RepliesDesc(table, cid) ==
  LET rows == {r \in table : cid = 0 \/ r.campaign_id = cid}
  IN Sorted(rows, [r \in rows |-> 0 - r.received_at])

SelectRepliesDesc(cid) == RepliesDesc(replies, cid)

\* campaigns.select("*").order("created_at", desc=True); ids grow with
\* created_at.
SelectCampaignsDesc == Sorted(campaigns, [c \in campaigns |-> 0 - c.id])

\* campaign_recipients.select(...).eq("campaign_id", cid).order("created_at")
SelectRecipientsAsc(cid) ==
  LET rows == {r \in recipients : r.campaign_id = cid}
  IN Sorted(rows, [r \in rows |-> r.created_at])

\* The upsert that merges duplicates: ON CONFLICT DO UPDATE of the token.
RECURSIVE UpsertMerge(_, _, _, _)
UpsertMerge(table, rows, nid, ts) ==
  IF rows = <<>> THEN [table |-> table, next |-> nid]
  ELSE LET r == Head(rows) IN
       IF \E x \in table : x.campaign_id = r.campaign_id /\ x.email = r.email
       THEN UpsertMerge(
              {IF x.campaign_id = r.campaign_id /\ x.email = r.email
               THEN [x EXCEPT !.token = r.token] ELSE x : x \in table},
              Tail(rows), nid, ts)
       ELSE UpsertMerge(
              table \cup {[id |-> nid, campaign_id |-> r.campaign_id,
                           email |-> r.email, token |-> r.token,
                           created_at |-> ts, sent_at |-> NULL,
                           replied_at |-> NULL]},
              Tail(rows), nid + 1, ts)

\* upsert(rows, on_conflict="campaign_id,email", ignore_duplicates=True):
\* INSERT ... ON CONFLICT (campaign_id, email) DO NOTHING, one statement.
\* Gives the table and the next id after it.
RECURSIVE UpsertRows(_, _, _, _)
UpsertRows(table, rows, nid, ts) ==
  IF rows = <<>> THEN [table |-> table, next |-> nid]
  ELSE LET r == Head(rows) IN
       IF \E x \in table : x.campaign_id = r.campaign_id /\ x.email = r.email
       THEN UpsertRows(table, Tail(rows), nid, ts)
       ELSE UpsertRows(
              table \cup {[id |-> nid, campaign_id |-> r.campaign_id,
                           email |-> r.email, token |-> r.token,
                           created_at |-> ts, sent_at |-> NULL,
                           replied_at |-> NULL]},
              Tail(rows), nid + 1, ts)

\* replies.insert({...})
InsertReply(row) == replies \cup {row}

\* The update writing a time after the dispatch timestamp.
MarkSentLater(rid, now) ==
  {IF r.id = rid THEN [r EXCEPT !.sent_at = now + 1] ELSE r : r \in recipients}

\* campaign_recipients.update({"sent_at": now}).eq("id", rid)
MarkSent(rid, now) ==
  {IF r.id = rid THEN [r EXCEPT !.sent_at = now] ELSE r : r \in recipients}

\* campaign_recipients.update({"replied_at": "now()"}).eq("email", e)
MarkReplied(e, now) ==
  {IF r.email = e THEN [r EXCEPT !.replied_at = now] ELSE r : r \in recipients}

\* -------------------------------------------------------- request plumbing
InFlight(kind) == Cardinality({q \in Procs : req[q].kind = kind})

RECURSIVE SumLen(_)
SumLen(S) ==
  IF S = {} THEN 0
  ELSE LET q == CHOOSE x \in S : TRUE IN Len(req[q].emails) + SumLen(S \ {q})

\* Worker p is free to take a request: the server runs handlers concurrently,
\* or runs one request at a time.
Admit(p) ==
  /\ pc[p] = "idle"
  /\ last = NoLast
  /\ overlap \/ \A q \in Procs : pc[q] = "idle"

\* Worker p is at label of its handler.
At(p, label) == pc[p] = label /\ last = NoLast

\* The handler of worker p returns rs.
Complete(p, r, l, rs) ==
  /\ pc'   = [pc   EXCEPT ![p] = "idle"]
  /\ req'  = [req  EXCEPT ![p] = NoReq]
  /\ loc'  = [loc  EXCEPT ![p] = NoLoc]
  /\ tlog' = [tlog EXCEPT ![p] = <<>>]
  /\ last' = [req |-> r, loc |-> l, resp |-> rs, tlog |-> tlog[p]]
  /\ UNCHANGED <<overlap, cleaning>>

\* The handler of worker p goes on at label.
Continue(p, label, r, l) ==
  /\ pc'   = [pc  EXCEPT ![p] = label]
  /\ req'  = [req EXCEPT ![p] = r]
  /\ loc'  = [loc EXCEPT ![p] = l]
  /\ last' = NoLast
  /\ UNCHANGED <<overlap, cleaning>>

\* The environment with both secrets set.
Configured == [M |-> "good", C |-> "good"]

\* The environments the server can start in: os.environ.get gives None for
\* a secret that is not set, as request.headers.get does for a header that
\* is not sent.
Environments == [M : {"absent", "good"}, C : {"absent", "good"}]

\* The state at start-up, whatever the environment and the server's
\* concurrency.
Boot ==
  /\ campaigns = {} /\ recipients = {} /\ replies = {}
  /\ nextCid = 1 /\ nextRid = 1 /\ nextReplyId = 1
  /\ clock = 1
  /\ mailed = [r \in 1..MaxRecipients |-> 0]
  /\ tlog = [p \in Procs |-> <<>>]
  /\ pc  = [p \in Procs |-> "idle"]
  /\ req = [p \in Procs |-> NoReq]
  /\ loc = [p \in Procs |-> NoLoc]
  /\ last = NoLast

\* No call of clean_body on its own.
NoCall == [text |-> <<>>, out |-> <<>>, done |-> TRUE]

Init == Boot /\ env = Configured /\ overlap = TRUE /\ cleaning = NoCall

SeqInit == Boot /\ env = Configured /\ overlap = FALSE /\ cleaning = NoCall

\* Start-up in any environment, requests one at a time.
AnyEnvInit == Boot /\ env \in Environments /\ overlap = FALSE /\ cleaning = NoCall

\* The texts clean_body is called on: up to MaxPieces pieces in a row, a
\* piece being a letter, a blank, a line break, the text of a marker or the
\* start of one.
Pieces ==
  {<<"h">>, <<" ">>, <<"\n">>, <<"O", "n", " ">>, <<"O", "n">>,
   <<"F", "r", "o", "m", ":">>, <<">">>}

RECURSIVE Flatten(_)
Flatten(ps) == IF ps = <<>> THEN <<>> ELSE Head(ps) \o Flatten(Tail(ps))

CleanInputs == {Flatten(ps) : ps \in SeqsOf(Pieces, 0, MaxPieces)}

\* A call of clean_body is pending, on any of the texts.
CleanInit ==
  /\ Boot /\ env = Configured /\ overlap = FALSE
  /\ cleaning \in {[text |-> t, out |-> <<>>, done |-> FALSE] : t \in CleanInputs}

\* ------------------------------------------------------- POST /mailgun
\* The dedupe lookup finding nothing, whatever the table holds.
DedupeMiss(mid) == FALSE

\* The dedupe lookup: a Reply with this Message-Id exists.
DedupeHit(mid) == SelectReplies(mid) # {}

\* The required-field check without the body.
DroppedUnlessBody(sender, body, mid) == sender = 0 \/ mid = 0

\* The required-field check: the event lacks an address, a body or an id.
Dropped(sender, body, mid) == sender = 0 \/ body = <<>> \/ mid = 0

\* Parse the form, drop an event lacking a field, then the dedupe lookup;
\* cap is the number of replies the store is let hold.
MailgunWebhook(p, cap) ==
  /\ Admit(p)
  /\ nextReplyId + InFlight("webhook") <= cap
  /\ \E sender_f \in RawFields, content \in Contents, mid \in 0..NumMids :
     \E from_f \in FromFields(sender_f) :
       LET r == [NoReq EXCEPT !.kind = "webhook",
                              !.raw = FormSender(sender_f, from_f),
                              !.subject = content.subject,
                              !.plain = content.plain, !.mid = mid]
           body == r.plain
           sender == extract_email(r.raw)
           l == [NoLoc EXCEPT !.sender = sender]
       IN IF Dropped(sender, body, mid)
          THEN Complete(p, r, l, Response(200))
          ELSE IF DedupeHit(mid)
          THEN Complete(p, r, [l EXCEPT !.dup = TRUE], Response(200))
          ELSE Continue(p, "wh_lookup", r, l) /\ UNCHANGED tlog
  /\ UNCHANGED <<db, clock, env, mailed>>

mailgun_webhook(p) == MailgunWebhook(p, MaxReplies)

\* The lookup going on to the insert, with a null association, when no
\* recipient has the sender's address.
wh_lookup_keep(p) ==
  /\ At(p, "wh_lookup")
  /\ \E rec \in SelectLatestRecipient(loc[p].sender) :
       Continue(p, "wh_insert", req[p],
         [loc[p] EXCEPT !.rec = IF rec = <<>>
                                 THEN <<[campaign_id |-> NULL, token |-> NULL]>>
                                 ELSE rec])
  /\ UNCHANGED <<db, clock, env, mailed, tlog>>

\* The lookup of the most recently created recipient with the sender's address.
wh_lookup(p) ==
  /\ At(p, "wh_lookup")
  /\ \E rec \in SelectLatestRecipient(loc[p].sender) :
       IF rec = <<>>
       THEN Complete(p, req[p], loc[p], Response(200))
       ELSE Continue(p, "wh_insert", req[p], [loc[p] EXCEPT !.rec = rec])
            /\ UNCHANGED tlog
  /\ UNCHANGED <<db, clock, env, mailed>>

\* The insert of the Reply row; the store sets received_at to its now().
wh_insert(p) ==
  /\ At(p, "wh_insert")
  /\ replies' = InsertReply(
       [id |-> nextReplyId,
        campaign_id |-> loc[p].rec[1].campaign_id,
        recipient_email |-> loc[p].sender,
        token |-> loc[p].rec[1].token,
        subject |-> req[p].subject,
        body |-> clean_body(req[p].plain),
        message_id |-> req[p].mid,
        received_at |-> nextReplyId])
  /\ nextReplyId' = nextReplyId + 1
  /\ Continue(p, "wh_update", req[p], loc[p])
  /\ UNCHANGED <<campaigns, recipients, nextCid, nextRid, clock, env, mailed, tlog>>

\* The update of replied_at, and the acknowledgement.
wh_update(p) ==
  /\ At(p, "wh_update")
  /\ recipients' = MarkReplied(loc[p].sender, REPLIED)
  /\ Complete(p, req[p], loc[p], Response(200))
  /\ UNCHANGED <<campaigns, replies, nextCid, nextRid, nextReplyId, clock, env, mailed>>

\* ----------------------------------------------------- POST /campaigns
\* The status the store gives a campaign inserted without one.
DefaultStatus == "draft"

\* A request records the fields its handler reads before it returns; cap is
\* the number of campaigns the store is let hold.
CreateCampaign(p, cap) ==
  /\ Admit(p)
  /\ nextCid <= cap
  /\ \E hM \in HdrVals : \E hC \in ViewerCKeys(hM) :
       LET h == [NoReq EXCEPT !.kind = "create", !.hdrM = hM, !.hdrC = hC] IN
       IF ~require_viewer(h)
       THEN Complete(p, h, NoLoc, Response(403)) /\ UNCHANGED db
       ELSE \E name \in Texts :
              LET r == [h EXCEPT !.name = name] IN
              IF name = ""
              THEN Complete(p, r, NoLoc, Response(400)) /\ UNCHANGED db
              ELSE /\ campaigns' = campaigns \cup
                        {[id |-> nextCid, status |-> DefaultStatus, subject |-> "",
                          body |-> "", sent_at |-> NULL]}
                   /\ nextCid' = nextCid + 1
                   /\ Complete(p, r, NoLoc, Response(200))
                   /\ UNCHANGED <<recipients, replies, nextRid, nextReplyId>>
  /\ UNCHANGED <<clock, env, mailed>>

create_campaign(p) == CreateCampaign(p, MaxCampaigns)

\* ------------------------------------------- POST /campaigns/<cid>/content
\* The required-field check without the body.
SubjectMissing(subject, body) == subject = ""

\* The required-field check: the stripped subject or body is empty.
ContentMissing(subject, body) == subject = "" \/ body = ""

set_content(p) ==
  /\ Admit(p)
  /\ \E hC \in HdrVals, cid \in CampIds :
       LET h == [NoReq EXCEPT !.kind = "content", !.hdrC = hC, !.cid = cid] IN
       IF ~require_c(h)
       THEN Complete(p, h, NoLoc, Response(403)) /\ UNCHANGED db
       ELSE \E subject \in Texts, body \in Texts :
              LET r == [h EXCEPT !.subject = subject, !.body = body] IN
              IF ContentMissing(subject, body)
              THEN Complete(p, r, NoLoc, Response(400)) /\ UNCHANGED db
              ELSE /\ campaigns' =
                        {IF c.id = cid
                         THEN [c EXCEPT !.subject = subject, !.body = body,
                                        !.status = "ready"]
                         ELSE c : c \in campaigns}
                   /\ Complete(p, r, NoLoc, Response(200))
                   /\ UNCHANGED <<recipients, replies, nextCid, nextRid, nextReplyId>>
  /\ UNCHANGED <<clock, env, mailed>>

\* -------------------------------------- POST /campaigns/<cid>/upload-emails
\* The count the handler reports for the list of rows it built.
UploadedCount(rows) == Len(rows)

\* Authorisation, the empty-list check and the campaign lookup.
upload_emails(p) ==
  /\ Admit(p)
  /\ \E hM \in HdrVals, cid \in CampIds :
       LET h == [NoReq EXCEPT !.kind = "upload", !.hdrM = hM, !.cid = cid] IN
       IF ~require_m(h)
       THEN Complete(p, h, NoLoc, Response(403))
       ELSE \E emails \in SeqsOf(Emails, 0, MaxUpload) :
              LET r == [h EXCEPT !.emails = emails]
                  campaign == SelectCampaign(cid)
              IN /\ nextRid + SumLen({q \in Procs : req[q].kind = "upload"})
                       + Len(emails) <= MaxRecipients + 1
                 /\ IF emails = <<>>
                    THEN Complete(p, r, NoLoc, Response(400))
                    ELSE IF campaign = <<>>
                    THEN Complete(p, r, NoLoc, Response(404))
                    ELSE Continue(p, "up_upsert", r,
                                  [NoLoc EXCEPT !.campaign = Kept(campaign, FALSE)])
                         /\ UNCHANGED tlog
  /\ UNCHANGED <<db, clock, env, mailed>>

\* A token per e-mail, the upsert of the rows, and the reported count.
up_upsert(p) ==
  /\ At(p, "up_upsert")
  /\ \E toks \in [1..Len(req[p].emails) -> gen_token] :
       LET rows == [i \in 1..Len(req[p].emails) |->
                      [campaign_id |-> req[p].cid, email |-> req[p].emails[i],
                       token |-> toks[i]]]
           res  == UpsertRows(recipients, rows, nextRid, nextRid)
       IN /\ recipients' = res.table
          /\ nextRid' = res.next
          /\ Complete(p, req[p], loc[p],
                      [Response(200) EXCEPT !.uploaded = UploadedCount(rows)])
  /\ UNCHANGED <<campaigns, replies, nextCid, nextReplyId, clock, env, mailed>>

\* ------------------------------------------- POST /campaigns/<cid>/send
\* The status of a dispatch that does not look at its failures.
AlwaysSent(failed) == "sent"

\* A dispatch that leaves the status as it read it.
LeftReady(failed) == "ready"

\* The status the dispatch leaves the campaign in.
NewStatus(failed) == IF failed = 0 THEN "sent" ELSE "partial"

\* A dispatch without the status check.
AnyStatus(campaign) == TRUE

\* The status check of the dispatch.
Dispatchable(campaign) == campaign.status = "ready"

\* A dispatch that keeps every recipient it read.
AllRows(rows) == rows

\* The recipients the dispatch keeps of those it read.
Unsent(rows) == {r \in rows : r.sent_at = NULL}

\* Authorisation, the campaign lookup and the status check; cap is the
\* number of dispatch timestamps handed out.
SendCampaign(p, cap) ==
  /\ Admit(p)
  /\ clock + Cardinality({q \in Procs : pc[q] = "send_select"}) <= cap
  /\ \E hM \in HdrVals, cid \in CampIds :
       LET r == [NoReq EXCEPT !.kind = "send", !.hdrM = hM,
                              !.cid = cid]
           campaign == SelectCampaign(cid)
       IN IF ~require_m(r)
          THEN Complete(p, r, NoLoc, Response(403))
          ELSE IF campaign = <<>>
          THEN Complete(p, r, NoLoc, Response(404))
          ELSE IF ~Dispatchable(campaign[1])
          THEN Complete(p, r, [NoLoc EXCEPT !.campaign = campaign], Response(400))
          ELSE Continue(p, "send_select", r,
                 [NoLoc EXCEPT !.campaign = Kept(campaign, TRUE)])
               /\ UNCHANGED tlog
  /\ UNCHANGED <<db, clock, env, mailed>>

send_campaign(p) == SendCampaign(p, MaxClock)

\* The recipient lookup, the unsent filter and the dispatch timestamp.
send_select(p) ==
  /\ At(p, "send_select")
  /\ LET rows == Unsent(SelectRecipients(req[p].cid)) IN
     IF rows = {}
     THEN Complete(p, req[p], loc[p], Response(400)) /\ UNCHANGED clock
     ELSE /\ \E order \in Orders(rows) :
               Continue(p, "send_mail", req[p],
                 [loc[p] EXCEPT
                    !.recipients = [i \in DOMAIN order |->
                                      [id |-> order[i].id, email |-> order[i].email]],
                    !.now = clock])
          /\ clock' = clock + 1
          /\ UNCHANGED tlog
  /\ UNCHANGED <<db, env, mailed>>

\* A loop that ends after its first recipient.
AfterFirst(l, i) == "send_finish"

\* The label after recipient number i of the loop.
AfterRecipient(l, i) == IF i = Len(l.recipients) THEN "send_finish" ELSE "send_mail"

\* One transport call of the loop; a failure is counted and the loop goes on.
send_mail(p) ==
  /\ At(p, "send_mail")
  /\ LET r == loc[p].recipients[loc[p].i + 1] IN
     \E ok \in BOOLEAN :
       /\ tlog' = [tlog EXCEPT ![p] = Append(@, [rid |-> r.id, ok |-> ok])]
       /\ IF ok
          THEN /\ mailed' = [mailed EXCEPT ![r.id] = @ + 1]
               /\ Continue(p, "send_mark", req[p], loc[p])
          ELSE /\ mailed' = mailed
               /\ Continue(p, AfterRecipient(loc[p], loc[p].i + 1), req[p],
                    [loc[p] EXCEPT !.failed = @ + 1, !.i = @ + 1])
  /\ UNCHANGED <<db, clock, env>>

\* The update of sent_at after an accepted send.
send_mark(p) ==
  /\ At(p, "send_mark")
  /\ LET r == loc[p].recipients[loc[p].i + 1] IN
       recipients' = MarkSent(r.id, loc[p].now)
  /\ Continue(p, AfterRecipient(loc[p], loc[p].i + 1), req[p],
       [loc[p] EXCEPT !.sent = @ + 1, !.i = @ + 1])
  /\ UNCHANGED <<campaigns, replies, nextCid, nextRid, nextReplyId,
                 clock, env, mailed, tlog>>

\* The update of the campaign's status and sent_at, and the counts returned.
send_finish(p) ==
  /\ At(p, "send_finish")
  /\ campaigns' =
       {IF c.id = req[p].cid
        THEN [c EXCEPT !.status = NewStatus(loc[p].failed), !.sent_at = loc[p].now]
        ELSE c : c \in campaigns}
  /\ Complete(p, req[p], loc[p],
       [Response(200) EXCEPT !.sent = loc[p].sent, !.failed = loc[p].failed])
  /\ UNCHANGED <<recipients, replies, nextCid, nextRid, nextReplyId,
                 clock, env, mailed>>

\* ------------------------------------------------------------- GET /
home(p) ==
  /\ Admit(p)
  /\ Complete(p, [NoReq EXCEPT !.kind = "home"], NoLoc, Response(200))
  /\ UNCHANGED <<db, clock, env, mailed>>

\* ------------------------------------------------------- GET /replies
\* The listing of replies; cid 0 is a request without campaign_id.
list_replies(p) ==
  /\ Admit(p)
  /\ \E hM \in HdrVals : \E hC \in ViewerCKeys(hM) :
       LET h == [NoReq EXCEPT !.kind = "replies", !.hdrM = hM, !.hdrC = hC] IN
       IF ~require_viewer(h)
       THEN Complete(p, h, NoLoc, Response(403))
       ELSE \E cid \in {0} \cup CampIds :
            \E rows \in SelectRepliesDesc(cid) :
              Complete(p, [h EXCEPT !.cid = cid], NoLoc,
                       [Response(200) EXCEPT !.rows = Limit(rows, ListLimit)])
  /\ UNCHANGED <<db, clock, env, mailed>>

\* ---------------------------------------- GET /campaigns/<cid>/replies.csv
\* The columns of the reply export with and without addresses.
ReplyColumnsM == <<"received_at", "recipient_email", "token", "subject", "body">>

ReplyColumnsC == <<"received_at", "token", "subject", "body">>

\* The cells of row r for the columns cols.
Cells(r, cols) == [i \in DOMAIN cols |-> r[cols[i]]]

\* csv_response: the header line and the lines of the rows.
csv_response(header, rows) ==
  [Response(200) EXCEPT !.header = header, !.rows = rows]

\* The export without the constrained branch.
ColumnsOfM(is_m) == ReplyColumnsM

\* The columns of the export for the caller's role.
ColumnsOf(is_m) == IF is_m THEN ReplyColumnsM ELSE ReplyColumnsC

\* The exports of campaign cid that the handler can build from a reply table.
ReplyExports(table, cid, is_m) ==
  {csv_response(ColumnsOf(is_m),
                [i \in DOMAIN rows |-> Cells(rows[i], ColumnsOf(is_m))]) :
     rows \in RepliesDesc(table, cid)}

replies_csv(p) ==
  /\ Admit(p)
  /\ \E hM \in HdrVals, hC \in HdrVals, cid \in CampIds :
       LET r == [NoReq EXCEPT !.kind = "replies_csv", !.hdrM = hM, !.hdrC = hC,
                              !.cid = cid]
           is_m == r.hdrM = env.M
           is_c == r.hdrC = env.C
       IN IF ~is_m /\ ~is_c
          THEN Complete(p, r, NoLoc, Response(403))
          ELSE \E export \in ReplyExports(replies, cid, is_m) :
                 Complete(p, r, NoLoc, export)
  /\ UNCHANGED <<db, clock, env, mailed>>

\* ------------------------------------------------------ GET /campaigns
list_campaigns(p) ==
  /\ Admit(p)
  /\ \E hM \in HdrVals : \E hC \in ViewerCKeys(hM) :
       LET h == [NoReq EXCEPT !.kind = "campaigns", !.hdrM = hM, !.hdrC = hC] IN
       IF ~require_viewer(h)
       THEN Complete(p, h, NoLoc, Response(403))
       ELSE \E rows \in SelectCampaignsDesc :
              Complete(p, h, NoLoc, [Response(200) EXCEPT !.rows = rows])
  /\ UNCHANGED <<db, clock, env, mailed>>

\* ------------------------------------- GET /campaigns/<cid>/recipients.csv
RecipientColumns == <<"email", "token", "created_at", "sent_at", "replied_at">>

recipients_csv(p) ==
  /\ Admit(p)
  /\ \E hM \in HdrVals, cid \in CampIds :
       LET r == [NoReq EXCEPT !.kind = "recipients_csv", !.hdrM = hM,
                              !.cid = cid] IN
       IF ~require_m(r)
       THEN Complete(p, r, NoLoc, Response(403))
       ELSE \E rows \in SelectRecipientsAsc(cid) :
              Complete(p, r, NoLoc,
                csv_response(RecipientColumns,
                  [i \in DOMAIN rows |-> Cells(rows[i], RecipientColumns)]))
  /\ UNCHANGED <<db, clock, env, mailed>>

\* ------------------------------------------------- POST /admin/clear-all
\* The store procedure truncate_all_campaign_data: the tables after it.
truncate_all_campaign_data ==
  [campaigns |-> {}, recipients |-> {}, replies |-> {}]

clear_all_data(p) ==
  /\ Admit(p)
  /\ \E hM \in HdrVals :
       LET h == [NoReq EXCEPT !.kind = "clear", !.hdrM = hM] IN
       IF ~require_m(h)
       THEN Complete(p, h, NoLoc, Response(403)) /\ UNCHANGED db
       ELSE \E confirm \in BOOLEAN :
              LET r == [h EXCEPT !.confirm = confirm] IN
              IF ~confirm
              THEN Complete(p, r, NoLoc, Response(400)) /\ UNCHANGED db
              ELSE /\ campaigns' = truncate_all_campaign_data.campaigns
                   /\ recipients' = truncate_all_campaign_data.recipients
                   /\ replies' = truncate_all_campaign_data.replies
                   /\ Complete(p, r, NoLoc, Response(200))
                   /\ UNCHANGED <<nextCid, nextRid, nextReplyId>>
  /\ UNCHANGED <<clock, env, mailed>>

\* ---------------------------------------------------------- specification
\* The response of the request that just completed goes out to its caller;
\* last records it for that one state.
Deliver ==
  /\ last # NoLast
  /\ last' = NoLast
  /\ UNCHANGED <<db, clock, env, mailed, tlog, pc, req, loc, overlap, cleaning>>

\* A request that writes to the store or sends arrives at worker p.
Writes(p) ==
  \/ mailgun_webhook(p)
  \/ create_campaign(p)
  \/ set_content(p)
  \/ upload_emails(p)
  \/ send_campaign(p)
  \/ clear_all_data(p)

\* A request that reads only arrives at worker p.
Reads(p) ==
  \/ home(p)
  \/ list_replies(p)
  \/ replies_csv(p)
  \/ list_campaigns(p)
  \/ recipients_csv(p)

\* A request arrives at worker p.
Start(p) == Writes(p) \/ Reads(p)

\* Worker p takes the next step of its handler.
Step(p) ==
  \/ wh_lookup(p)
  \/ wh_insert(p)
  \/ wh_update(p)
  \/ up_upsert(p)
  \/ send_select(p)
  \/ send_mail(p)
  \/ send_mark(p)
  \/ send_finish(p)

Next ==
  \/ Deliver
  \/ \E p \in Procs : Start(p) \/ Step(p)

\* Requests overlap.
Spec == Init /\ [][Next]_vars

\* The requests that read only change nothing that a handler reads: the
\* specifications below leave them out where no property is about them.
WriteNext ==
  \/ Deliver
  \/ \E p \in Procs : Writes(p) \/ Step(p)

\* Requests arrive one at a time.
SeqSpec == SeqInit /\ [][WriteNext]_vars

\* Overlapping requests of the handlers that read or write what a dispatch
\* reads or writes (campaigns, and campaign_recipients but for replied_at).
DispatchNext ==
  \/ Deliver
  \/ \E p \in Procs :
       \/ create_campaign(p)
       \/ set_content(p)
       \/ upload_emails(p)
       \/ up_upsert(p)
       \/ send_campaign(p)
       \/ send_select(p)
       \/ send_mail(p)
       \/ send_mark(p)
       \/ send_finish(p)
       \/ clear_all_data(p)

DispatchSpec == Init /\ [][DispatchNext]_vars

\* The process is not terminated and every store and transport call returns:
\* a response goes out, and a dispatch that can take its next step takes it.
DispatchFair ==
  /\ WF_vars(Deliver)
  /\ \A p \in Procs :
       /\ WF_vars(send_select(p))
       /\ WF_vars(send_mail(p))
       /\ WF_vars(send_mark(p))
       /\ WF_vars(send_finish(p))

\* Requests of the dispatch and of the handlers that write what it reads,
\* one at a time, with every call returning.
DispatchLiveSpec == SeqInit /\ [][DispatchNext]_vars /\ DispatchFair

\* Overlapping requests of the handlers that read or write what reply
\* ingestion reads or writes (replies, and campaign_recipients but for sent_at).
IngestNext ==
  \/ Deliver
  \/ \E p \in Procs :
       \/ create_campaign(p)
       \/ upload_emails(p)
       \/ up_upsert(p)
       \/ mailgun_webhook(p)
       \/ wh_lookup(p)
       \/ wh_insert(p)
       \/ wh_update(p)
       \/ clear_all_data(p)

IngestSpec == Init /\ [][IngestNext]_vars

\* Requests of the endpoints behind a role check, one at a time, in any
\* environment.
AuthNext ==
  \/ Deliver
  \/ \E p \in Procs :
       \/ list_replies(p)
       \/ replies_csv(p)
       \/ list_campaigns(p)
       \/ recipients_csv(p)
       \/ create_campaign(p)
       \/ set_content(p)
       \/ upload_emails(p)
       \/ up_upsert(p)
       \/ send_campaign(p)
       \/ send_select(p)
       \/ send_mail(p)
       \/ send_mark(p)
       \/ send_finish(p)
       \/ clear_all_data(p)

AuthSpec == AnyEnvInit /\ [][AuthNext]_vars

\* Requests one at a time, with two campaigns that can share an address,
\* one dispatch and one reply: the handlers that write what reply ingestion
\* reads, and the dispatch.
CorrelateNext ==
  \/ Deliver
  \/ \E p \in Procs :
       \/ CreateCampaign(p, MaxCorrelated)
       \/ set_content(p)
       \/ upload_emails(p)
       \/ up_upsert(p)
       \/ SendCampaign(p, CorrelatedClock)
       \/ send_select(p)
       \/ send_mail(p)
       \/ send_mark(p)
       \/ send_finish(p)
       \/ MailgunWebhook(p, CorrelatedReplies)
       \/ wh_lookup(p)
       \/ wh_insert(p)
       \/ wh_update(p)

CorrelateSpec == SeqInit /\ [][CorrelateNext]_vars

\* Overlapping requests of reply ingestion, of the handlers that write what
\* it reads, and of the reply export.
ExportNext ==
  \/ Deliver
  \/ \E p \in Procs :
       \/ create_campaign(p)
       \/ upload_emails(p)
       \/ up_upsert(p)
       \/ mailgun_webhook(p)
       \/ wh_lookup(p)
       \/ wh_insert(p)
       \/ wh_update(p)
       \/ replies_csv(p)
       \/ clear_all_data(p)

ExportSpec == Init /\ [][ExportNext]_vars

\* The pending call of clean_body returns.
CleanBody ==
  /\ ~cleaning.done
  /\ cleaning' = [cleaning EXCEPT !.out = clean_body(cleaning.text), !.done = TRUE]
  /\ UNCHANGED <<db, clock, env, mailed, tlog, pc, req, loc, last, overlap>>

CleanSpec == CleanInit /\ [][CleanBody]_vars

\* ------------------------------------------------------------ properties
\* The requests that act in a step: the one that completes in it, and the
\* ones whose handlers go on.
Acting ==
  (IF last' # NoLast THEN {last'} ELSE {})
    \cup {[req |-> req'[p], loc |-> loc'[p], resp |-> NoResp, tlog |-> tlog'[p]] :
            p \in {q \in Procs : pc'[q] # pc[q] /\ pc'[q] # "idle"}}

\* The event carries an address, a body and a Message-Id.
ValidEvent(r) == extract_email(r.raw) # 0 /\ r.plain # <<>> /\ r.mid # 0

RecipientsOf(e) == {r \in recipients : r.email = e}

RecipientsIn(cid) == {r \in recipients : r.campaign_id = cid}

RepliesWith(mid) == {r \in replies : r.message_id = mid}

\* C1. Webhook idempotence (requests one at a time): after a delivery of a
\* valid event whose sender matches a recipient, exactly one Reply row has
\* its Message-Id, be it the first or a repeated delivery; no Message-Id has
\* two Reply rows; every delivery returns 200.
C1_WebhookIdempotence ==
  /\ \A m \in Mids : Cardinality(RepliesWith(m)) <= 1
  /\ last.req.kind = "webhook" =>
       /\ last.resp.code = 200
       /\ (ValidEvent(last.req) /\ RecipientsOf(extract_email(last.req.raw)) # {})
            => Cardinality(RepliesWith(last.req.mid)) = 1

\* A repeated delivery: the dedupe lookup found the Reply of an earlier one.
C1_Witness ==
  /\ last.req.kind = "webhook"
  /\ last.loc.dup
  /\ RecipientsOf(extract_email(last.req.raw)) # {}
  /\ Cardinality(RepliesWith(last.req.mid)) = 1
  /\ last.resp.code = 200

\* C2. Upload idempotence (requests one at a time): an upload of a list
\* holding an email that the campaign already has stores no second row for
\* a (campaign, email) pair, and the count it reports is the number of rows
\* it created.
C2_UploadCount ==
  [][(/\ last'.req.kind = "upload"
      /\ last'.resp.code = 200
      /\ \E i \in DOMAIN last'.req.emails, r \in recipients :
           r.campaign_id = last'.req.cid /\ r.email = last'.req.emails[i]) =>
       /\ \A r1, r2 \in recipients' :
            (r1.campaign_id = r2.campaign_id /\ r1.email = r2.email) => r1 = r2
       /\ last'.resp.uploaded = Cardinality(recipients') - Cardinality(recipients)
    ]_vars

\* The rows of campaign cid that the dispatch with timestamp now marked sent,
\* and those it left unsent.
MarkedBy(cid, now) == {r \in RecipientsIn(cid) : r.sent_at = now}

StillUnsent(cid) == {r \in RecipientsIn(cid) : r.sent_at = NULL}

Failures(tl) == Cardinality({i \in DOMAIN tl : ~tl[i].ok})

\* C3. Dispatch outcome (requests one at a time): a dispatch that returns
\* 200 attempted the N recipients that were unsent, reports failed = the
\* number of failed transport calls and sent = N - failed, has marked sent
\* exactly the recipients whose call succeeded, and leaves the campaign
\* "sent" if no call failed and "partial" otherwise.
C3_DispatchOutcome ==
  (last.req.kind = "send" /\ last.resp.code = 200) =>
    LET cid == last.req.cid
        k   == Failures(last.tlog)
        N   == Cardinality(MarkedBy(cid, last.loc.now) \cup StillUnsent(cid))
    IN /\ N >= 1
       /\ Len(last.tlog) = N
       /\ last.resp.failed = k
       /\ last.resp.sent = N - k
       /\ Cardinality(StillUnsent(cid)) = k
       /\ \E c \in campaigns : c.id = cid
       /\ \A c \in campaigns : c.id = cid =>
            /\ c.status = (IF k = 0 THEN "sent" ELSE "partial")
            /\ (c.status = "sent") <=> (last.resp.failed = 0)

\* A dispatch of two recipients of which one transport call failed.
C3_Witness ==
  /\ last.req.kind = "send"
  /\ last.resp.code = 200
  /\ last.resp.sent = 1
  /\ last.resp.failed = 1
  /\ \E c \in campaigns : c.id = last.req.cid /\ c.status = "partial"

\* C4 as claimed. Re-dispatch of a partial campaign (requests one at a
\* time): a dispatch request for a campaign in status "partial" that has
\* unsent recipients is carried out (it is not refused), and it attempts
\* exactly the recipients that were unsent.
C4_RedispatchPartial ==
  [][\A c \in campaigns :
       (/\ last'.req.kind = "send"
        /\ require_m(last'.req)
        /\ last'.req.cid = c.id
        /\ c.status = "partial"
        /\ StillUnsent(c.id) # {})
       => /\ last'.resp.code = 200
          /\ {last'.tlog[i].rid : i \in DOMAIN last'.tlog}
               = {r.id : r \in StillUnsent(c.id)}
    ]_vars

\* The recipients a dispatch made a transport call for.
Attempted(tl) == {tl[i].rid : i \in DOMAIN tl}

\* C4 as amended. Re-dispatch after a partial dispatch (requests one at a
\* time): a dispatch request for a campaign in status "partial" is refused
\* with 400 and sends nothing; once set-content has made the campaign
\* "ready" again, the dispatch makes one transport call for each recipient
\* whose sent_at was null and none for a recipient already marked sent.
C4_RedispatchAfterReady ==
  [][/\ \A c \in campaigns :
          (/\ last'.req.kind = "send"
           /\ require_m(last'.req)
           /\ pc' = pc
           /\ last'.req.cid = c.id
           /\ c.status = "partial")
          => /\ last'.resp.code = 400
             /\ last'.tlog = <<>>
             /\ UNCHANGED <<campaigns, recipients, mailed>>
     /\ (last'.req.kind = "send" /\ last'.resp.code = 200) =>
          /\ Attempted(last'.tlog)
               = {r.id : r \in {x \in recipients' :
                                  /\ x.campaign_id = last'.req.cid
                                  /\ x.sent_at \in {NULL, last'.loc.now}}}
          /\ Len(last'.tlog) = Cardinality(Attempted(last'.tlog))
    ]_vars

\* A second dispatch of a campaign: one recipient was marked sent by an
\* earlier dispatch, and the other is attempted now.
C4_Witness ==
  /\ last.req.kind = "send"
  /\ last.resp.code = 200
  /\ Len(last.tlog) = 1
  /\ \E r \in RecipientsIn(last.req.cid) :
       /\ r.sent_at \notin {NULL, last.loc.now}
       /\ r.id \notin Attempted(last.tlog)

\* C5. At-most-once send (requests overlap): no recipient has received
\* more than one successful transport send.
C5_AtMostOnceSend == \A rid \in DOMAIN mailed : mailed[rid] <= 1

\* C6. At-most-once reply (deliveries overlap): no two Reply rows carry the
\* same Message-Id.
C6_UniqueMessageId ==
  \A r1, r2 \in replies : r1.message_id = r2.message_id => r1 = r2

\* A valid event with a new Message-Id whose sender no recipient has.
Unmatched(r) ==
  /\ r.kind = "webhook"
  /\ ValidEvent(r)
  /\ RepliesWith(r.mid) = {}
  /\ RecipientsOf(extract_email(r.raw)) = {}

C8_PreconditionFailure ==
  [][/\ \A p \in Procs :
          /\ (pc[p] = "idle" /\ pc'[p] = "send_select") =>
               \E c \in campaigns : c.id = req'[p].cid /\ c.status = "ready"
          /\ (pc[p] = "send_select" /\ pc'[p] = "send_mail") =>
               StillUnsent(req[p].cid) # {}
          /\ (pc[p] = "send_select" /\ pc'[p] = "idle") =>
               StillUnsent(req[p].cid) = {} /\ last'.resp.code = 400
     /\ (last'.req.kind = "send" /\ require_m(last'.req) /\ pc' = pc) =>
          LET cid == last'.req.cid IN
          IF ~\E c \in campaigns : c.id = cid
          THEN last'.resp.code = 404
          ELSE /\ \E c \in campaigns : c.id = cid /\ c.status # "ready"
               /\ last'.resp.code = 400
     /\ (last'.req.kind = "send" /\ last'.resp.code \in {400, 404}) =>
          /\ last'.tlog = <<>>
          /\ campaigns' = campaigns
          /\ recipients' = recipients
          /\ mailed' = mailed
    ]_vars

\* A dispatch refused for a campaign that is not "ready" and has an unsent
\* recipient.
C8_Witness ==
  /\ last.req.kind = "send"
  /\ last.resp.code = 400
  /\ \E c \in campaigns : c.id = last.req.cid /\ c.status # "ready"
  /\ StillUnsent(last.req.cid) # {}
  /\ last.tlog = <<>>

\* C9. The webhook always acknowledges (deliveries overlap): every delivery
\* returns 200, and no step of the delivery of an event that lacks an
\* extractable sender, a body or a Message-Id changes a Reply or a
\* Recipient row.
C9_AlwaysAcknowledge ==
  [][\A a \in Acting : a.req.kind = "webhook" =>
       /\ (a = last') => a.resp.code = 200
       /\ ~ValidEvent(a.req) => (replies' = replies /\ recipients' = recipients)
    ]_vars

\* A delivery without a body, acknowledged, from a sender that has a
\* recipient that has not replied.
C9_Witness ==
  /\ last.req.kind = "webhook"
  /\ last.req.plain = <<>>
  /\ last.req.mid # 0
  /\ \E r \in RecipientsOf(extract_email(last.req.raw)) : r.replied_at = NULL
  /\ last.resp.code = 200

\* C10. Token uniqueness (requests one at a time): no two Recipient rows
\* hold the same token.
C10_TokenUnique ==
  \A r1, r2 \in recipients : r1.token = r2.token => r1 = r2

\* The endpoints behind a role check.
Protected ==
  {"replies", "replies_csv", "campaigns", "recipients_csv", "create",
   "content", "upload", "send", "clear"}

\* The request carries no key that matches a configured secret: each key
\* header is missing or differs from the secret.
Keyless(r) ==
  /\ r.hdrM = "absent" \/ r.hdrM # env.M
  /\ r.hdrC = "absent" \/ r.hdrC # env.C

\* C11. Authorization precedes mutation (any environment): a request to a
\* role-protected endpoint that carries no matching key is answered 403 by
\* the first step of its handler, and that step changes no campaign,
\* recipient or reply row.
C11_AuthorizationFirst ==
  [][\A a \in Acting :
       (a.req.kind \in Protected /\ Keyless(a.req)) =>
         /\ a = last'
         /\ a.resp.code = 403
         /\ UNCHANGED <<campaigns, recipients, replies>>
    ]_vars

\* The most recently created of the recipients with address e.
Latest(e) ==
  {r \in RecipientsOf(e) : \A x \in RecipientsOf(e) : x.created_at <= r.created_at}

\* C12. Most-recent-match correlation (requests one at a time, an address
\* in up to two campaigns): a Reply row that ingestion inserts for an event
\* from address e carries e and the campaign id and token of the most
\* recently created Recipient row with address e, of which there is one.
C12_MostRecentMatch ==
  [][\A y \in replies' \ replies :
       /\ Cardinality(Latest(y.recipient_email)) = 1
       /\ \A r \in Latest(y.recipient_email) :
            y.campaign_id = r.campaign_id /\ y.token = r.token
    ]_vars

\* A reply was recorded for an address of two campaigns, of which the older
\* has been dispatched to the address and the newer has not; the Reply
\* carries the newer campaign.
C12_Witness ==
  /\ last.req.kind = "webhook"
  /\ ~last.loc.dup
  /\ \E y \in RepliesWith(last.req.mid) :
     \E old, new \in RecipientsOf(y.recipient_email) :
       /\ old.created_at < new.created_at
       /\ old.campaign_id # new.campaign_id
       /\ old.sent_at # NULL
       /\ new.sent_at = NULL
       /\ y.campaign_id = new.campaign_id
       /\ y.token = new.token

\* C13. Reply marks one recipient (requests one at a time, an address in up
\* to two campaigns): the step of ingestion that updates replied_at after
\* the insert of a Reply sets it on the most recently created Recipient row
\* with the sender's address and leaves every other Recipient row as it was.
C13_ReplyMarksOne ==
  [][\A p \in Procs :
       (pc[p] = "wh_update" /\ pc'[p] = "idle") =>
         LET e == extract_email(req[p].raw) IN
         /\ \A r \in Latest(e) :
              \E x \in recipients' : x.id = r.id /\ x.replied_at # NULL
         /\ \A r \in recipients \ Latest(e) : r \in recipients'
    ]_vars

\* C14. Ready implies content (requests overlap): after every step a
\* campaign in status "ready", "sent" or "partial" has a non-blank subject
\* and a non-blank body; a set-content request with a blank subject or a
\* blank body is answered 400 and changes no campaign; a dispatch goes past
\* its status check only for a campaign it reads in status "ready", and
\* every transport call is made by a dispatch that did.
C14_ReadyImpliesContent ==
  [][/\ \A c \in campaigns' :
          c.status \in {"ready", "sent", "partial"} => (c.subject # "" /\ c.body # "")
     /\ (/\ last'.req.kind = "content"
         /\ require_c(last'.req)
         /\ last'.req.subject = "" \/ last'.req.body = "") =>
          /\ last'.resp.code = 400
          /\ campaigns' = campaigns
     /\ \A p \in Procs :
          /\ (pc[p] = "idle" /\ pc'[p] = "send_select") =>
               \E c \in campaigns : c.id = req'[p].cid /\ c.status = "ready"
          /\ tlog'[p] # tlog[p] =>
               \/ tlog'[p] = <<>>
               \/ /\ pc[p] = "send_mail"
                  /\ loc[p].campaign[1].subject # ""
                  /\ loc[p].campaign[1].body # ""
    ]_vars

\* A set-content request with a subject and no body, refused, for a
\* campaign that has been dispatched and keeps its content.
C14_Witness ==
  /\ last.req.kind = "content"
  /\ last.req.subject # ""
  /\ last.req.body = ""
  /\ last.resp.code = 400
  /\ \E c \in campaigns :
       /\ c.id = last.req.cid
       /\ c.status \in {"sent", "partial"}
       /\ c.subject # "" /\ c.body # ""

\* The reply tables that differ from table only in recipient_email values.
Readdressed(table) ==
  {{[y EXCEPT !.recipient_email = f[y.id]] : y \in table} :
     f \in [{y.id : y \in table} -> Emails]}

\* C15. Export redaction (both secrets set, requests overlap): the reply
\* export answered to a caller whose X-C-Key matches and whose X-M-Key does
\* not has the columns received_at, token, subject, body, and is an export
\* of every reply table that differs from the stored one only in
\* recipient_email values; the export answered to a caller whose X-M-Key
\* matches has the column recipient_email, holding the address of each
\* reply of the campaign.
C15_ExportRedaction ==
  (last.req.kind = "replies_csv" /\ last.resp.code = 200) =>
    IF last.req.hdrM = env.M
    THEN /\ \E i \in DOMAIN last.resp.header : last.resp.header[i] = "recipient_email"
         /\ \A i \in DOMAIN last.resp.header :
              last.resp.header[i] = "recipient_email" =>
                {last.resp.rows[k][i] : k \in DOMAIN last.resp.rows}
                  = {y.recipient_email : y \in {x \in replies : x.campaign_id = last.req.cid}}
    ELSE /\ last.req.hdrC = env.C
         /\ last.resp.header = <<"received_at", "token", "subject", "body">>
         /\ \A table \in Readdressed(replies) :
              last.resp \in ReplyExports(table, last.req.cid, FALSE)

\* An export of two replies from different addresses, answered to a caller
\* with the constrained key only.
C15_Witness ==
  /\ last.req.kind = "replies_csv"
  /\ last.resp.code = 200
  /\ last.req.hdrC = env.C
  /\ last.req.hdrM # env.M
  /\ Len(last.resp.rows) = 2
  /\ \E y1, y2 \in replies :
       /\ y1.campaign_id = last.req.cid /\ y2.campaign_id = last.req.cid
       /\ y1.recipient_email # y2.recipient_email

\* C16. Partial failure does not abort the batch (requests overlap): the
\* list a dispatch goes on with holds each recipient of the campaign that
\* is unsent when the dispatch reads them, once; a dispatch that has begun
\* its loop returns 200, and by then has made exactly one transport call
\* per recipient of its list, in the order of the list, whatever calls
\* failed, so that sent + failed is the length of the list.
C16_BatchNotAborted ==
  [][/\ \A p \in Procs :
          /\ (pc[p] = "send_select" /\ pc'[p] = "send_mail") =>
               LET l == loc'[p].recipients IN
               /\ {l[i].id : i \in DOMAIN l} = {r.id : r \in StillUnsent(req[p].cid)}
               /\ Len(l) = Cardinality(StillUnsent(req[p].cid))
          /\ (pc[p] \in {"send_mail", "send_mark", "send_finish"} /\ pc'[p] = "idle") =>
               last'.resp.code = 200
     /\ (last'.req.kind = "send" /\ last'.resp.code = 200) =>
          LET l == last'.loc.recipients
              t == last'.tlog
          IN /\ Len(l) >= 1
             /\ Len(t) = Len(l)
             /\ \A i \in DOMAIN t : t[i].rid = l[i].id
             /\ last'.resp.sent + last'.resp.failed = Len(l)
             /\ last'.resp.failed = Failures(t)
    ]_vars

\* A dispatch of two recipients whose first transport call failed and whose
\* second succeeded.
C16_Witness ==
  /\ last.req.kind = "send"
  /\ last.resp.code = 200
  /\ Len(last.tlog) = 2
  /\ ~last.tlog[1].ok
  /\ last.tlog[2].ok
  /\ last.resp.sent = 1
  /\ last.resp.failed = 1

\* C17. Shared dispatch timestamp (requests one at a time): when a dispatch
\* has returned 200, each recipient it made a transport call for has
\* sent_at equal to the timestamp the dispatch took before its loop if the
\* call succeeded and null if the call failed, and the campaign's sent_at
\* is that timestamp.
C17_SharedTimestamp ==
  (last.req.kind = "send" /\ last.resp.code = 200) =>
    /\ last.loc.now # NULL
    /\ \A i \in DOMAIN last.tlog :
         /\ \E r \in RecipientsIn(last.req.cid) : r.id = last.tlog[i].rid
         /\ \A r \in RecipientsIn(last.req.cid) :
              r.id = last.tlog[i].rid =>
                r.sent_at = (IF last.tlog[i].ok THEN last.loc.now ELSE NULL)
    /\ \E c \in campaigns : c.id = last.req.cid
    /\ \A c \in campaigns : c.id = last.req.cid => c.sent_at = last.loc.now

\* A dispatch of two recipients: the one whose call succeeded carries the
\* dispatch timestamp, as the campaign does, and the one whose call failed
\* has no sent_at.
C17_Witness ==
  /\ last.req.kind = "send"
  /\ last.resp.code = 200
  /\ \E i, j \in DOMAIN last.tlog :
       /\ last.tlog[i].ok
       /\ ~last.tlog[j].ok
       /\ \E r1, r2 \in RecipientsIn(last.req.cid) :
            /\ r1.id = last.tlog[i].rid /\ r1.sent_at = last.loc.now
            /\ r2.id = last.tlog[j].rid /\ r2.sent_at = NULL
  /\ \E c \in campaigns : c.id = last.req.cid /\ c.sent_at = last.loc.now

\* C18. Re-upload is a no-op on existing rows (requests one at a time): the
\* upsert of an upload leaves every Recipient row that exists as it is
\* (token, created_at, sent_at and replied_at included) and adds rows only
\* for the (campaign, email) pairs that had none; after every step each
\* Reply row carries the token of the Recipient row of its campaign and
\* address.
C18_ReuploadNoOp ==
  [][/\ \A p \in Procs :
          (pc[p] = "up_upsert" /\ pc'[p] = "idle") =>
            /\ \A r \in recipients : r \in recipients'
            /\ \A x \in recipients' \ recipients :
                 /\ x.campaign_id = req[p].cid
                 /\ \E i \in DOMAIN req[p].emails : req[p].emails[i] = x.email
                 /\ ~\E r \in recipients :
                      r.campaign_id = x.campaign_id /\ r.email = x.email
     /\ \A y \in replies' :
          \E r \in recipients' :
            /\ r.campaign_id = y.campaign_id
            /\ r.email = y.recipient_email
            /\ r.token = y.token
    ]_vars

\* An upload of a list holding the address of a recipient that has been
\* sent to and has replied: the row keeps sent_at and replied_at, and the
\* row and the Reply still carry one token.
C18_Witness ==
  /\ last.req.kind = "upload"
  /\ last.resp.code = 200
  /\ \E r \in RecipientsIn(last.req.cid) :
       /\ \E i \in DOMAIN last.req.emails : last.req.emails[i] = r.email
       /\ r.replied_at # NULL
       /\ r.sent_at # NULL
       /\ \E y \in replies :
            /\ y.campaign_id = r.campaign_id
            /\ y.recipient_email = r.email
            /\ y.token = r.token

\* C19. Dispatch runs to completion (requests one at a time, every call
\* returns): a dispatch that has passed its checks and begun its loop
\* eventually returns; it returns 200, and the step in which it returns
\* writes status "sent" or "partial" to the campaign.
C19_DispatchCompletes ==
  /\ \A p \in Procs : (pc[p] = "send_mail") ~> (pc[p] = "idle")
  /\ [][\A p \in Procs :
           (pc[p] \in {"send_mail", "send_mark", "send_finish"} /\ pc'[p] = "idle") =>
             /\ last'.resp.code = 200
             /\ \A c \in campaigns' :
                  c.id = req[p].cid => c.status \in {"sent", "partial"}
       ]_vars

\* A dispatch whose two transport calls both failed has returned, and the
\* campaign is "partial".
C19_Witness ==
  /\ last.req.kind = "send"
  /\ last.resp.code = 200
  /\ last.resp.sent = 0
  /\ last.resp.failed = 2
  /\ \E c \in campaigns : c.id = last.req.cid /\ c.status = "partial"

\* Index i of text is the start of a line that starts with a quoted-reply
\* marker.
MarkerLine(text, i) ==
  /\ i = 1 \/ text[i - 1] = "\n"
  /\ \E mk \in {<<"O", "n", " ">>, <<"F", "r", "o", "m", ":">>, <<">">>} :
       /\ i + Len(mk) - 1 <= Len(text)
       /\ \A k \in 1..Len(mk) : text[i + k - 1] = mk[k]

\* The text that precedes the earliest marker line, the whole text if there
\* is none.
BeforeMarker(text) ==
  LET at == {i \in 1..Len(text) : MarkerLine(text, i)} IN
  IF at = {} THEN text
  ELSE SubSeq(text, 1, (CHOOSE i \in at : \A j \in at : i <= j) - 1)

\* text without its leading and trailing blanks and line breaks.
RECURSIVE Trimmed(_)
Trimmed(text) ==
  IF text = <<>> THEN <<>>
  ELSE IF Head(text) \in {" ", "\n"} THEN Trimmed(Tail(text))
  ELSE IF text[Len(text)] \in {" ", "\n"} THEN Trimmed(SubSeq(text, 1, Len(text) - 1))
  ELSE text

\* C20. Body cleaning: clean_body returns, trimmed, the text that precedes
\* the earliest line starting with "On ", "From:" or ">", the first line
\* included, and the whole text, trimmed, if there is no such line.
C20_BodyCleaning ==
  cleaning.done => cleaning.out = Trimmed(BeforeMarker(cleaning.text))

=============================================================================
